---- MODULE Spec2Model ----
(***************************************************************************)
(* Notification history store (screens/NotificationHistoryScreen.tsx),     *)
(* push registration (services/NotificationService.ts) and the login flow  *)
(* (context/AuthContext.tsx) of the palliative-care mobile client.         *)
(*                                                                         *)
(* JavaScript runs the handlers on one thread; every `await` is a          *)
(* suspension point, so each async function is cut into one action per     *)
(* stretch of code between two awaits.  AsyncStorage and the network are   *)
(* the environment: a request is issued by one action and takes effect in  *)
(* a later one.                                                            *)
(***************************************************************************)
EXTENDS Integers, Sequences, FiniteSets, TLC

VARIABLES
    now,            \* Date.now(), epoch milliseconds
    stored,         \* AsyncStorage item notifications_<user id>: [present, list]
    notifications,  \* useState list of the mounted NotificationHistoryScreen
    mounted,        \* the NotificationHistory stack screen is mounted
    inst,           \* number of the mounted component instance
    navPending,     \* destination handed to nav.navigate, not yet shown
    adds,           \* addNotificationToHistory calls in flight: position and locals
    marks,          \* markAsRead calls in flight: position and locals
    loads,          \* loadNotificationHistory calls in flight: position and locals
    clears,         \* clearAll calls in flight: position
    events,         \* gestures and deliveries so far (bounds the run)
    delivered,      \* history: deliveries by the platform, per identifier
    recorded,       \* history: addNotificationToHistory calls, per identifier
    pressed,        \* history: ids of the records opened from the list
    cleared,        \* history: clearAll has been called
    env,            \* device and build: [isDevice, isExpoGo, os, projectId]
    permission,     \* notification permission the operating system holds
    user,           \* AuthContext state: user id, "none" for null
    sessionToken,   \* AuthContext state: session token, "none" for null
    role,           \* AuthContext state: role, "none" for null
    sessionItems,   \* session keys AsyncStorage holds (session_token, user, user_role)
    login,          \* the login call: position and locals
    reg,            \* the registerForPushNotifications call: position and locals
    backend,        \* the registerPushTokenWithBackend call: position and locals
    expoPushToken,  \* NotificationService.expoPushToken, "none" for null
    channels,       \* Android notification channels created so far
    logins,         \* login calls so far (bounds the run)
    seeded,         \* history: records the store held when the run began
    steps,          \* history: platform calls of the running registration, in order
    svcCalls,       \* calls of the service made by the screens so far (bounds the run)
    sched,          \* the scheduler operation of NotificationService in flight
    pending,        \* notifications the platform scheduler holds
    posts,          \* history: tokens POSTed to /api/notifications/register
    notificationListener, \* NotificationService.notificationListener: subscription id, 0 for null
    responseListener,     \* NotificationService.responseListener: subscription id, 0 for null
    subscriptions,  \* listeners of the service the platform holds subscribed
    tapTimers,      \* setTimeout callbacks of the App tap handler not yet run
    tapped,         \* the last system notification tap the App handler routed
    labels          \* relative-time labels of the rows as last rendered

appVars == <<notificationListener, responseListener, subscriptions, tapTimers,
             tapped, labels>>

histVars == <<now, stored, notifications, mounted, inst, navPending,
              adds, marks, loads, clears, events, delivered, recorded,
              pressed, cleared, appVars>>

authVars == <<env, permission, user, sessionToken, role, sessionItems,
              login, reg, backend, expoPushToken, channels, logins>>

svcVars == <<seeded, steps, svcCalls, sched, pending, posts>>

vars == <<histVars, authVars, svcVars>>

-----------------------------------------------------------------------------
(* Program constants *)

\* NotificationHistoryScreen.tsx:91  .slice(0, 100)
HistoryCap == 100

\* NotificationHistoryScreen.tsx:78  Date.now() - n.timestamp < 60000
DedupWindow == 60000

(* Bounds of the model *)

\* calls the screens make of the notification service in one run
MaxCalls == 2

\* gestures of the user and deliveries of the platform in one run
MaxFires == 2

MaxTicks == 2

\* the bucket limits of formatTimestamp, in ms
MinuteMs == 60000
HourMs == 3600000
DayMs == 86400000
WeekMs == 604800000

MaxEvents == 3

\* asynchronous calls of the history screen in flight at one time
MaxInFlight == 2

\* login calls in one run
MaxLogins == 1

\* JavaScript undefined (an absent payload field)
Undefined == "undefined"

\* clock of the first state
BaseTime == 1000000

\* milliseconds between two deliveries
Elapse == {0, DedupWindow - 1}

\* milliseconds AsyncStorage.getItem takes
ReadLatency == {0, 1}

-----------------------------------------------------------------------------
(* Notifications the platform delivers (request.identifier, content) *)

Deliveries ==
    { [identifier |-> 201, title |-> "Dr. Rao", body |-> "hello",
       data |-> [type |-> "chat", conversationId |-> "c1"]],
      [identifier |-> 202, title |-> "Dr. Rao", body |-> "are you there",
       data |-> [type |-> "chat", conversationId |-> "c1"]],
      [identifier |-> 203, title |-> "", body |-> "",
       data |-> [type |-> "medication", conversationId |-> Undefined]],
      [identifier |-> 204, title |-> "Nurse Asha", body |-> "ping",
       data |-> [type |-> "chat", conversationId |-> Undefined]],
      [identifier |-> 205, title |-> "Clinic", body |-> "open day",
       data |-> [type |-> Undefined, conversationId |-> Undefined]],
      [identifier |-> 206, title |-> "Offer", body |-> "new plan",
       data |-> [type |-> "promo", conversationId |-> Undefined]] }

\* a || b of JavaScript for strings: undefined and "" are falsy
OrElse(a, b) == IF a = Undefined \/ a = "" THEN b ELSE a

\* NotificationRecord built by addNotificationToHistory, lines 59-67
NewNotif(n, t) ==
    [id        |-> n.identifier,
     title     |-> OrElse(n.title, "Notification"),
     body      |-> OrElse(n.body, ""),
     data      |-> n.data,
     timestamp |-> t,
     read      |-> FALSE,
     type      |-> OrElse(n.data.type, "other")]

-----------------------------------------------------------------------------
(* A store the program has filled earlier: k records received 100 ms apart,  *)
(* newest first, the oldest one a chat message of conversation c1.          *)

PrefillRecord(i, k) ==
    [id        |-> i,
     title     |-> "Reminder",
     body      |-> "b0",
     data      |-> IF i = k THEN [type |-> "chat", conversationId |-> "c1"]
                            ELSE [type |-> "medication", conversationId |-> Undefined],
     timestamp |-> BaseTime - 100 * i,
     read      |-> FALSE,
     type      |-> IF i = k THEN "chat" ELSE "medication"]

Prefill(k) == [i \in 1..k |-> PrefillRecord(i, k)]

\* a store k addNotificationToHistory calls of medication reminders have built
PlainFill(k) == [i \in 1..k |-> PrefillRecord(i, 0)]

Absent == [present |-> FALSE, list |-> <<>>]

Item(list) == [present |-> TRUE, list |-> list]

-----------------------------------------------------------------------------
(* Pure helpers of the history screen *)

Min(a, b) == IF a < b THEN a ELSE b

IsSortedDesc(s) == \A i \in 1..(Len(s) - 1) : s[i].timestamp >= s[i + 1].timestamp

\* r placed behind every element of the descending list s that is not older
InsertDesc(s, r) ==
    LET k == Cardinality({i \in 1..Len(s) : s[i].timestamp >= r.timestamp})
    IN  SubSeq(s, 1, k) \o <<r>> \o SubSeq(s, k + 1, Len(s))

\* list.sort((a, b) => b.timestamp - a.timestamp): stable, newest first
RECURSIVE SortDesc(_)
SortDesc(s) ==
    IF IsSortedDesc(s) THEN s
    ELSE InsertDesc(SortDesc(SubSeq(s, 1, Len(s) - 1)), s[Len(s)])

\* RecentChat with the window closed at 60,000 ms (<= for <)
RecentChatInclusive(existing, conversationId, t) ==
    LET hits == {i \in 1..Len(existing) :
                    /\ existing[i].type = "chat"
                    /\ existing[i].data.conversationId = conversationId
                    /\ t - existing[i].timestamp <= DedupWindow}
    IN  IF hits = {} THEN 0 ELSE CHOOSE i \in hits : \A j \in hits : i <= j

\* existing.find(...) of lines 75-79: index of the first recent chat record of
\* the conversation, 0 when find returns undefined
RecentChat(existing, conversationId, t) ==
    LET hits == {i \in 1..Len(existing) :
                    /\ existing[i].type = "chat"
                    /\ existing[i].data.conversationId = conversationId
                    /\ t - existing[i].timestamp < DedupWindow}
    IN  IF hits = {} THEN 0 ELSE CHOOSE i \in hits : \A j \in hits : i <= j

\* existing.map(...) of lines 82-84
MergeInto(existing, recentId, newNotif) ==
    [i \in 1..Len(existing) |->
        IF existing[i].id = recentId
        THEN [existing[i] EXCEPT !.body = newNotif.body, !.timestamp = newNotif.timestamp]
        ELSE existing[i]]

\* Prepend made to forget the list read: the new record alone
PrependOnly(newNotif, existing) == <<newNotif>>

\* Prepend without the slice: the list grows past the cap
PrependNoCap(newNotif, existing) == <<newNotif>> \o existing

\* [newNotif, ...existing].slice(0, 100) of line 91
Prepend(newNotif, existing) ==
    SubSeq(<<newNotif>> \o existing, 1, Min(HistoryCap, Len(existing) + 1))

\* notifications.map(...) of lines 101-103
MarkRead(list, id) ==
    [i \in 1..Len(list) |->
        IF list[i].id = id THEN [list[i] EXCEPT !.read = TRUE] ELSE list[i]]

\* switch of handleNotificationPress, lines 125-139; "none": no navigation
\* a switch whose default case opens the Home tab
DestinationDefaultHome(type) ==
    CASE type = "chat"         -> "Chat"
      [] type = "medication"   -> "Medications"
      [] type = "prescription" -> "Medications"
      [] type = "appointment"  -> "Home"
      [] type = "emergency"    -> "Maps"
      [] OTHER                 -> "Home"

Destination(type) ==
    CASE type = "chat"         -> "Chat"
      [] type = "medication"   -> "Medications"
      [] type = "prescription" -> "Medications"
      [] type = "appointment"  -> "Home"
      [] type = "emergency"    -> "Maps"
      [] OTHER                 -> "none"

\* setNotifications made to do nothing
KeepNotifications(k, list) == notifications

\* setNotifications of a call started by component instance k: React drops
\* the update of an unmounted instance
SetNotifications(k, list) ==
    IF mounted /\ k = inst THEN list ELSE notifications

\* rows the user taps in the model: the first and the last of the list
PressRows == {1, Len(notifications)} \ {0}

\* identifiers the platform delivers
\* a second chat message whose payload has no conversationId
Unthreaded ==
    [identifier |-> 207, title |-> "Nurse Asha", body |-> "pong",
     data |-> [type |-> "chat", conversationId |-> Undefined]]

DeliveryIds == {n.identifier : n \in Deliveries \cup {Unthreaded}}

\* a finished call leaves the list of calls in flight
Remove(calls, t) == SubSeq(calls, 1, t - 1) \o SubSeq(calls, t + 1, Len(calls))

InFlight == Len(adds) + Len(marks) + Len(loads) + Len(clears)

-----------------------------------------------------------------------------
(* Push registration and login: values and helpers *)

\* createNotificationChannels, NotificationService.ts lines 107-141, in order
ChannelNames == <<"chat", "appointment", "medication", "emergency">>

\* results of supabase.rpc(login_...) as login tells them apart (lines 84-91)
RpcOutcomes == {"throw", "error", "dataError", "success", "noSuccess"}

\* what fetch resolves or rejects with, and the response bodies
FetchOutcomes ==
    {[kind |-> "networkError", status |-> 0]}
    \cup {[kind |-> "response", status |-> st] : st \in {200, 500}}

Bodies == {"unparsable", "null", "empty", "successTrue", "successFalse"}

NoCall == [pc |-> "idle", result |-> "none", next |-> 0]

NoBackend == [pc |-> "idle", result |-> FALSE, token |-> "none",
              response |-> [kind |-> "none", status |-> 0], body |-> "none"]

NoLogin == [pc |-> "idle", data |-> "none", stored |-> 0, result |-> FALSE]

\* registerForPushNotifications resolves with value v
Resolved(v) == [pc |-> "resolved", result |-> v, next |-> 0]

\* the catch blocks made to give up: null, nothing cached
LocalOnlyAsNull == [reg |-> Resolved("none"), token |-> expoPushToken]

\* lines 95-100 and 87-89: the catch blocks cache the sentinel and return it
LocalOnly == [reg |-> Resolved("local-only"), token |-> "local-only"]

\* lines 63-74: the project id is looked up and the token is requested
TokenSection ==
    IF env.projectId
    THEN [reg |-> [pc |-> "token", result |-> "none", next |-> 0], token |-> expoPushToken]
    ELSE LocalOnly

\* AfterGranted without the channels: the token is requested at once
AfterGrantedNoChannels == TokenSection

\* lines 57-60: permission is granted; Android creates its channels first
AfterGranted ==
    IF env.os = "android"
    THEN [reg |-> [pc |-> "channel", result |-> "none", next |-> 1], token |-> expoPushToken]
    ELSE TokenSection

\* RegStart without the capability check
RegStartNoCheck == [pc |-> "getPerm", result |-> "none", next |-> 0]

\* lines 37-44: the capability check, then getPermissionsAsync is awaited
RegStart ==
    IF ~env.isDevice \/ env.isExpoGo
    THEN Resolved("none")
    ELSE [pc |-> "getPerm", result |-> "none", next |-> 0]

\* the platform call the registration was suspended at resolved or rejected
Settled(ok) == IF ok THEN <<>> ELSE <<"rejected">>

\* the platform call registration record r is suspended at, if any
Issued(r) ==
    CASE r.pc = "getPerm" -> <<"getPermissionsAsync">>
      [] r.pc = "reqPerm" -> <<"requestPermissionsAsync">>
      [] r.pc = "channel" -> <<ChannelNames[r.next]>>
      [] r.pc = "token"   -> <<"getExpoPushTokenAsync">>
      [] OTHER            -> <<>>

\* BackendStart without the token check: the POST is always issued
BackendStartAlways == [NoBackend EXCEPT !.pc = "fetch", !.token = expoPushToken]

\* lines 394-412: no cached token: false, no request; else the POST is issued
BackendStart ==
    IF expoPushToken = "none"
    THEN [NoBackend EXCEPT !.pc = "resolved", !.result = FALSE]
    ELSE [NoBackend EXCEPT !.pc = "fetch", !.token = expoPushToken]

\* the token in the body of the POST backend call b is suspended at, if any
Posted(b) == IF b.pc = "fetch" THEN <<b.token>> ELSE <<>>

\* line 415: data.success || false, data being the parsed body; reading
\* .success of null throws, and the catch returns false (lines 416-419)
SuccessOf(body) == body = "successTrue"

\* login made to report the outcome of the backend registration
LoginValueOfRegistration(registered) == registered

\* the value login returns after the registration block (line 120)
LoginValue(registered) == TRUE

\* trigger handed to scheduleNotificationAsync; null fires at once (line 213)
NullTrigger == [type |-> "null", seconds |-> 0, hour |-> 0, minute |-> 0, repeats |-> FALSE]

\* no scheduler operation has been called
NoSched == [op |-> "none", pc |-> "idle", type |-> "none", trigger |-> NullTrigger,
            id |-> 0, result |-> "none", list |-> {}]

\* the service has not been called and the platform holds nothing scheduled
ServiceIdle ==
    /\ steps = <<>>
    /\ svcCalls = 0
    /\ sched = NoSched
    /\ pending = {}
    /\ posts = <<>>

\* a subscription the platform handed out
Subscription(id, kind) == [id |-> id, kind |-> kind]

\* no system notification was tapped, no row was rendered
NothingTapped ==
    /\ tapTimers = <<>>
    /\ tapped = [type |-> "none", dest |-> "none"]
    /\ labels = <<>>

\* App is mounted: its effect has called setupNotificationListeners once
\* (App.tsx lines 109-149)
AppMounted ==
    /\ notificationListener = 1
    /\ responseListener = 2
    /\ subscriptions = {Subscription(1, "received"), Subscription(2, "response")}
    /\ NothingTapped

\* a user is logged in and no login is running (the history screen's state)
LoggedIn ==
    /\ env = [isDevice |-> TRUE, isExpoGo |-> FALSE, os |-> "android", projectId |-> TRUE]
    /\ permission = "granted"
    /\ user = "u1"
    /\ sessionToken = "s1"
    /\ role = "user"
    /\ sessionItems = 3
    /\ login = NoLogin
    /\ reg = NoCall
    /\ backend = NoBackend
    /\ expoPushToken = "none"
    /\ channels = {}
    /\ logins = 0

-----------------------------------------------------------------------------
(* Initial state: the app is running with a user logged in, the history    *)
(* screen closed; the user's store is absent (fresh install) or holds the  *)
(* records of earlier sessions.                                            *)

HistInit ==
    /\ now = BaseTime
    /\ stored \in {Absent, Item(Prefill(HistoryCap))}
    /\ notifications = <<>>
    /\ mounted = FALSE
    /\ inst = 0
    /\ navPending = "none"
    /\ adds = <<>>
    /\ marks = <<>>
    /\ loads = <<>>
    /\ clears = <<>>
    /\ events = 0
    /\ delivered = [id \in DeliveryIds |-> 0]
    /\ recorded = [id \in DeliveryIds |-> 0]
    /\ pressed = {}
    /\ cleared = FALSE
    /\ AppMounted
    /\ LoggedIn
    /\ seeded = Len(stored.list)
    /\ ServiceIdle

-----------------------------------------------------------------------------
(* Mounting and leaving the screen *)

\* ProfileScreen navigates to NotificationHistory; useState([]) and the mount
\* effect (lines 31-43): loadNotificationHistory is called and suspends at getItem
OpenHistory ==
    /\ ~mounted
    /\ events < MaxEvents
    /\ InFlight < MaxInFlight
    /\ events' = events + 1
    /\ mounted' = TRUE
    /\ inst' = inst + 1
    /\ notifications' = <<>>
    /\ loads' = Append(loads, [pc |-> "read", inst |-> inst + 1, result |-> Absent])
    /\ UNCHANGED <<authVars, svcVars, appVars, now, stored, navPending, adds, marks, clears,
                   delivered, recorded, pressed, cleared>>

\* onRefresh (lines 142-146): the RefreshControl of the non-empty list
Refresh ==
    /\ mounted
    /\ Len(notifications) > 0
    /\ events < MaxEvents
    /\ InFlight < MaxInFlight
    /\ events' = events + 1
    /\ loads' = Append(loads, [pc |-> "read", inst |-> inst, result |-> Absent])
    /\ UNCHANGED <<authVars, svcVars, appVars, now, stored, notifications, mounted, inst, navPending,
                   adds, marks, clears, delivered, recorded, pressed, cleared>>

\* navigation.goBack() of the header (line 222): the screen is popped, its
\* state is gone and the effect's cleanup removes the subscription (line 42)
GoBack ==
    /\ mounted
    /\ events < MaxEvents
    /\ events' = events + 1
    /\ mounted' = FALSE
    /\ notifications' = <<>>
    /\ navPending' = "none"
    /\ UNCHANGED <<authVars, svcVars, appVars, now, stored, inst, adds, marks, loads, clears,
                   delivered, recorded, pressed, cleared>>

\* the navigator carries out nav.navigate('MainTabs', ...): NotificationHistory
\* is popped off the stack
Navigate ==
    /\ mounted
    /\ navPending # "none"
    /\ mounted' = FALSE
    /\ notifications' = <<>>
    /\ navPending' = "none"
    /\ UNCHANGED <<authVars, svcVars, appVars, now, stored, inst, adds, marks, loads, clears, events,
                   delivered, recorded, pressed, cleared>>

-----------------------------------------------------------------------------
(* loadNotificationHistory, lines 45-55 *)

\* AsyncStorage.getItem reads the item
LoadRead(t) ==
    /\ loads[t].pc = "read"
    /\ loads' = [loads EXCEPT ![t].pc = "set", ![t].result = stored]
    /\ UNCHANGED <<authVars, svcVars, appVars, now, stored, notifications, mounted, inst, navPending,
                   adds, marks, clears, events, delivered, recorded, pressed, cleared>>

\* the await resumes: if (stored) setNotifications(parsed.sort(...))
LoadDone(t) ==
    /\ loads[t].pc = "set"
    /\ notifications' =
          IF loads[t].result.present
          THEN SetNotifications(loads[t].inst, SortDesc(loads[t].result.list))
          ELSE notifications
    /\ loads' = Remove(loads, t)
    /\ UNCHANGED <<authVars, svcVars, appVars, now, stored, mounted, inst, navPending,
                   adds, marks, clears, events, delivered, recorded, pressed, cleared>>

-----------------------------------------------------------------------------
(* addNotificationToHistory, lines 57-97 *)

\* The platform delivers notification n, d ms after the previous clock read.
\* Only the subscription of the mounted history screen (lines 38-40) records
\* it; the listener App.tsx registers passes no received-callback (line 112).
\* The call builds newNotif (lines 59-67) and suspends at getItem (line 69).
Receive(n, d) ==
    /\ events < MaxEvents
    /\ mounted => InFlight < MaxInFlight
    /\ events' = events + 1
    /\ now' = now + d
    /\ delivered' = [delivered EXCEPT ![n.identifier] = @ + 1]
    /\ IF mounted
       THEN /\ adds' = Append(adds, [pc |-> "read", inst |-> inst,
                                     newNotif |-> NewNotif(n, now + d),
                                     existing |-> <<>>, updated |-> <<>>,
                                     merged |-> FALSE])
            /\ recorded' = [recorded EXCEPT ![n.identifier] = @ + 1]
       ELSE UNCHANGED <<adds, recorded>>
    /\ UNCHANGED <<authVars, svcVars, appVars, stored, notifications, mounted, inst, navPending,
                   marks, loads, clears, pressed, cleared>>

\* getItem resolves d ms later (line 69); lines 70-91 run up to the setItem
AddRead(t, d) ==
    /\ adds[t].pc = "read"
    /\ now' = now + d
    /\ LET newNotif == adds[t].newNotif
           existing == IF stored.present THEN stored.list ELSE <<>>
           recent   == IF newNotif.type = "chat"
                       THEN RecentChat(existing, newNotif.data.conversationId, now + d)
                       ELSE 0
       IN  adds' = [adds EXCEPT
                      ![t].pc = "write",
                      ![t].existing = existing,
                      ![t].merged = (recent # 0),
                      ![t].updated = IF recent # 0
                                     THEN MergeInto(existing, existing[recent].id, newNotif)
                                     ELSE Prepend(newNotif, existing)]
    /\ UNCHANGED <<authVars, svcVars, appVars, stored, notifications, mounted, inst, navPending,
                   marks, loads, clears, events, delivered, recorded, pressed, cleared>>

\* AsyncStorage.setItem writes the item (line 85 or 92)
AddWrite(t) ==
    /\ adds[t].pc = "write"
    /\ stored' = Item(adds[t].updated)
    /\ adds' = [adds EXCEPT ![t].pc = "set", ![t].existing = <<>>]
    /\ UNCHANGED <<authVars, svcVars, appVars, now, notifications, mounted, inst, navPending,
                   marks, loads, clears, events, delivered, recorded, pressed, cleared>>

\* the await resumes: setNotifications (line 86, sorted, or line 93)
AddDone(t) ==
    /\ adds[t].pc = "set"
    /\ notifications' =
          SetNotifications(adds[t].inst,
                           IF adds[t].merged THEN SortDesc(adds[t].updated)
                                             ELSE adds[t].updated)
    /\ adds' = Remove(adds, t)
    /\ UNCHANGED <<authVars, svcVars, appVars, now, stored, mounted, inst, navPending,
                   marks, loads, clears, events, delivered, recorded, pressed, cleared>>

-----------------------------------------------------------------------------
(* handleNotificationPress and markAsRead, lines 99-140 *)

\* The user taps row i.  markAsRead runs up to its await: the in-memory list
\* is replaced (line 104) and setItem is issued (line 105); it is not
\* awaited, and the switch hands the destination to the navigator.
Press(i) ==
    /\ mounted
    /\ i \in PressRows
    /\ events < MaxEvents
    /\ InFlight < MaxInFlight
    /\ events' = events + 1
    /\ LET notif   == notifications[i]
           updated == MarkRead(notifications, notif.id)
           dest    == Destination(notif.type)
       IN  /\ notifications' = updated
           /\ marks' = Append(marks, [pc |-> "write", id |-> notif.id, updated |-> updated])
           /\ navPending' = IF dest # "none" THEN dest ELSE navPending
           /\ pressed' = pressed \cup {notif.id}
    /\ UNCHANGED <<authVars, svcVars, appVars, now, stored, mounted, inst, adds, loads, clears,
                   delivered, recorded, cleared>>

\* AsyncStorage.setItem of markAsRead writes the item (line 105)
MarkWrite(t) ==
    /\ marks[t].pc = "write"
    /\ stored' = Item(marks[t].updated)
    /\ marks' = Remove(marks, t)
    /\ UNCHANGED <<authVars, svcVars, appVars, now, notifications, mounted, inst, navPending,
                   adds, loads, clears, events, delivered, recorded, pressed, cleared>>

-----------------------------------------------------------------------------
(* clearAll, lines 111-118 *)

\* the "Clear All" button is rendered for a non-empty list (line 226)
ClearAll ==
    /\ mounted
    /\ Len(notifications) > 0
    /\ events < MaxEvents
    /\ InFlight < MaxInFlight
    /\ events' = events + 1
    /\ clears' = Append(clears, [pc |-> "remove", inst |-> inst])
    /\ cleared' = TRUE
    /\ UNCHANGED <<authVars, svcVars, appVars, now, stored, notifications, mounted, inst, navPending,
                   adds, marks, loads, delivered, recorded, pressed>>

\* AsyncStorage.removeItem deletes the item (line 113)
ClearRemove(t) ==
    /\ clears[t].pc = "remove"
    /\ stored' = Absent
    /\ clears' = [clears EXCEPT ![t].pc = "set"]
    /\ UNCHANGED <<authVars, svcVars, appVars, now, notifications, mounted, inst, navPending,
                   adds, marks, loads, events, delivered, recorded, pressed, cleared>>

\* the await resumes: setNotifications([]) (line 114)
ClearDone(t) ==
    /\ clears[t].pc = "set"
    /\ notifications' = SetNotifications(clears[t].inst, <<>>)
    /\ clears' = Remove(clears, t)
    /\ UNCHANGED <<authVars, svcVars, appVars, now, stored, mounted, inst, navPending,
                   adds, marks, loads, events, delivered, recorded, pressed, cleared>>

-----------------------------------------------------------------------------
(* AuthContext.login, lines 64-128, and the registration calls it awaits *)

\* the app shows LoginScreen: nobody is logged in, the store is untouched
AuthInit ==
    /\ now = BaseTime
    /\ stored = Absent
    /\ notifications = <<>>
    /\ mounted = FALSE
    /\ inst = 0
    /\ navPending = "none"
    /\ adds = <<>>
    /\ marks = <<>>
    /\ loads = <<>>
    /\ clears = <<>>
    /\ events = 0
    /\ delivered = [id \in DeliveryIds |-> 0]
    /\ recorded = [id \in DeliveryIds |-> 0]
    /\ pressed = {}
    /\ cleared = FALSE
    /\ AppMounted
    /\ env \in [isDevice : BOOLEAN, isExpoGo : BOOLEAN,
                os : {"android", "ios"}, projectId : BOOLEAN]
    /\ permission \in {"undetermined", "granted", "denied"}
    /\ user = "none"
    /\ sessionToken = "none"
    /\ role = "none"
    /\ sessionItems = 0
    /\ login = NoLogin
    /\ reg = NoCall
    /\ backend = NoBackend
    /\ expoPushToken = "none"
    /\ channels = {}
    /\ logins = 0
    /\ seeded = 0
    /\ ServiceIdle

\* LoginScreen calls login: lines 65-84 run up to the await of supabase.rpc
LoginCall ==
    /\ login.pc \in {"idle", "returned"}
    /\ user = "none"
    /\ logins < MaxLogins
    /\ logins' = logins + 1
    /\ login' = [NoLogin EXCEPT !.pc = "rpc"]
    /\ UNCHANGED <<histVars, svcVars, env, permission, user, sessionToken, role, sessionItems,
                   reg, backend, expoPushToken, channels>>

\* the RPC settles (lines 84-91, 123-127): anything but success returns false
LoginRpcReturn(o) ==
    /\ login.pc = "rpc"
    /\ login' = IF o = "success"
                THEN [login EXCEPT !.pc = "persist", !.data = o]
                ELSE [login EXCEPT !.pc = "returned", !.data = o, !.result = FALSE]
    /\ UNCHANGED <<histVars, svcVars, env, permission, user, sessionToken, role, sessionItems,
                   reg, backend, expoPushToken, channels, logins>>

\* The three setItem calls (lines 100-102), k of them succeeding.  After the
\* third the state is set (lines 104-106) and registerForPushNotifications is
\* called (line 110); a failing write throws to the outer catch (lines 124-127).
LoginPersist(k) ==
    /\ login.pc = "persist"
    /\ sessionItems' = IF k > sessionItems THEN k ELSE sessionItems
    /\ IF k = 3
       THEN /\ sessionToken' = "s1"
            /\ user' = "u1"
            /\ role' = "user"
            /\ reg' = RegStart
            /\ login' = [login EXCEPT !.pc = "register", !.stored = k]
       ELSE /\ login' = [login EXCEPT !.pc = "returned", !.stored = k, !.result = FALSE]
            /\ UNCHANGED <<sessionToken, user, role, reg>>
    /\ steps' = Issued(reg')
    /\ UNCHANGED <<histVars, seeded, svcCalls, sched, pending, posts,
                   env, permission, backend, expoPushToken, channels, logins>>

\* getPermissionsAsync settles (lines 44-55)
RegGetPerm(ok) ==
    /\ reg.pc = "getPerm"
    /\ LET to == IF ~ok THEN LocalOnly
                 ELSE IF permission = "granted" THEN AfterGranted
                 ELSE [reg |-> [pc |-> "reqPerm", result |-> "none", next |-> 0],
                       token |-> expoPushToken]
       IN  /\ reg' = to.reg
           /\ expoPushToken' = to.token
    /\ steps' = steps \o Settled(ok) \o Issued(reg')
    /\ UNCHANGED <<histVars, seeded, svcCalls, sched, pending, posts,
                   env, permission, user, sessionToken, role, sessionItems,
                   login, backend, channels, logins>>

\* requestPermissionsAsync settles (lines 48-55): the user's answer, or a failure
RegReqPerm(o) ==
    /\ reg.pc = "reqPerm"
    /\ LET to == IF o = "throw" THEN LocalOnly
                 ELSE IF o = "granted" THEN AfterGranted
                 ELSE [reg |-> Resolved("none"), token |-> expoPushToken]
       IN  /\ reg' = to.reg
           /\ expoPushToken' = to.token
    /\ permission' = IF o = "throw" THEN permission ELSE o
    /\ steps' = steps \o Settled(o # "throw") \o Issued(reg')
    /\ UNCHANGED <<histVars, seeded, svcCalls, sched, pending, posts,
                   env, user, sessionToken, role, sessionItems,
                   login, backend, channels, logins>>

\* setNotificationChannelAsync of the next channel settles (lines 108-140)
RegChannel(ok) ==
    /\ reg.pc = "channel"
    /\ LET to == IF ~ok THEN LocalOnly
                 ELSE IF reg.next < Len(ChannelNames)
                 THEN [reg |-> [reg EXCEPT !.next = @ + 1], token |-> expoPushToken]
                 ELSE TokenSection
       IN  /\ reg' = to.reg
           /\ expoPushToken' = to.token
    /\ channels' = IF ok THEN channels \cup {ChannelNames[reg.next]} ELSE channels
    /\ steps' = steps \o Settled(ok) \o Issued(reg')
    /\ UNCHANGED <<histVars, seeded, svcCalls, sched, pending, posts,
                   env, permission, user, sessionToken, role, sessionItems,
                   login, backend, logins>>

\* getExpoPushTokenAsync settles (lines 72-100)
RegToken(o) ==
    /\ reg.pc = "token"
    /\ LET to == IF o = "token"
                 THEN [reg |-> Resolved("tok1"), token |-> "tok1"]
                 ELSE LocalOnly
       IN  /\ reg' = to.reg
           /\ expoPushToken' = to.token
    /\ steps' = steps \o Settled(o = "token") \o Issued(reg')
    /\ UNCHANGED <<histVars, seeded, svcCalls, sched, pending, posts,
                   env, permission, user, sessionToken, role, sessionItems,
                   login, backend, channels, logins>>

\* login resumes with pushToken (lines 110-114): a truthy one starts
\* registerPushTokenWithBackend, null goes straight to return true (line 120)
LoginAfterRegister ==
    /\ login.pc = "register"
    /\ reg.pc = "resolved"
    /\ reg' = NoCall
    /\ IF reg.result # "none"
       THEN /\ backend' = BackendStart
            /\ login' = [login EXCEPT !.pc = "backend"]
       ELSE /\ login' = [login EXCEPT !.pc = "returned", !.result = LoginValue(FALSE)]
            /\ UNCHANGED backend
    /\ posts' = posts \o Posted(backend')
    /\ UNCHANGED <<histVars, seeded, steps, svcCalls, sched, pending, env, permission, user, sessionToken, role, sessionItems,
                   expoPushToken, channels, logins>>

\* fetch settles (lines 402-412): a response of any status, or a rejection
\* that the catch turns into false (lines 416-419)
BackendFetchReturn(r) ==
    /\ backend.pc = "fetch"
    /\ backend' = IF r.kind = "networkError"
                  THEN [backend EXCEPT !.pc = "resolved", !.response = r, !.result = FALSE]
                  ELSE [backend EXCEPT !.pc = "json", !.response = r]
    /\ UNCHANGED <<histVars, svcVars, env, permission, user, sessionToken, role, sessionItems,
                   login, reg, expoPushToken, channels, logins>>

\* response.json() settles with body b (lines 414-419)
BackendJsonReturn(b) ==
    /\ backend.pc = "json"
    /\ backend' = [backend EXCEPT !.pc = "resolved", !.body = b, !.result = SuccessOf(b)]
    /\ UNCHANGED <<histVars, svcVars, env, permission, user, sessionToken, role, sessionItems,
                   login, reg, expoPushToken, channels, logins>>

\* login resumes after registerPushTokenWithBackend (lines 112-120)
LoginAfterBackend ==
    /\ login.pc = "backend"
    /\ backend.pc = "resolved"
    /\ login' = [login EXCEPT !.pc = "returned", !.result = LoginValue(backend.result)]
    /\ UNCHANGED <<histVars, svcVars, env, permission, user, sessionToken, role, sessionItems,
                   reg, backend, expoPushToken, channels, logins>>

-----------------------------------------------------------------------------
(* The service called by the screens (MedicationsScreen.tsx lines 53-58,   *)
(* NotificationTestScreen.tsx lines 27-30) and through its exported API    *)

\* the history screen is closed and its store untouched
HistoryClosed ==
    /\ now = BaseTime
    /\ stored = Absent
    /\ notifications = <<>>
    /\ mounted = FALSE
    /\ inst = 0
    /\ navPending = "none"
    /\ adds = <<>>
    /\ marks = <<>>
    /\ loads = <<>>
    /\ clears = <<>>
    /\ events = 0
    /\ delivered = [id \in DeliveryIds |-> 0]
    /\ recorded = [id \in DeliveryIds |-> 0]
    /\ pressed = {}
    /\ cleared = FALSE
    /\ AppMounted
    /\ seeded = 0

\* a user is logged in on any device and build, no token is cached yet
RegInit ==
    /\ HistoryClosed
    /\ env \in [isDevice : BOOLEAN, isExpoGo : BOOLEAN,
                os : {"android", "ios"}, projectId : BOOLEAN]
    /\ permission \in {"undetermined", "granted", "denied"}
    /\ user = "u1"
    /\ sessionToken = "s1"
    /\ role = "user"
    /\ sessionItems = 3
    /\ login = NoLogin
    /\ reg = NoCall
    /\ backend = NoBackend
    /\ expoPushToken = "none"
    /\ channels = {}
    /\ logins = 0
    /\ ServiceIdle

\* registerForPushNotifications is called: lines 37-44 run up to the first await
CallRegister ==
    /\ reg.pc \in {"idle", "resolved"}
    /\ svcCalls < MaxCalls
    /\ svcCalls' = svcCalls + 1
    /\ reg' = RegStart
    /\ steps' = Issued(reg')
    /\ UNCHANGED <<histVars, seeded, sched, pending, posts, env, permission, user,
                   sessionToken, role, sessionItems, login, backend, expoPushToken,
                   channels, logins>>

\* registerPushTokenWithBackend is called: lines 394-412 run up to the fetch
CallBackend ==
    /\ backend.pc \in {"idle", "resolved"}
    /\ svcCalls < MaxCalls
    /\ svcCalls' = svcCalls + 1
    /\ backend' = BackendStart
    /\ posts' = posts \o Posted(backend')
    /\ UNCHANGED <<histVars, seeded, steps, sched, pending, env, permission, user,
                   sessionToken, role, sessionItems, login, reg, expoPushToken,
                   channels, logins>>

RegNext ==
    \/ CallRegister
    \/ CallBackend
    \/ \E ok \in BOOLEAN : RegGetPerm(ok)
    \/ \E o \in {"granted", "denied", "throw"} : RegReqPerm(o)
    \/ \E ok \in BOOLEAN : RegChannel(ok)
    \/ \E o \in {"token", "firebaseError", "otherError"} : RegToken(o)
    \/ \E r \in FetchOutcomes : BackendFetchReturn(r)
    \/ \E b \in Bodies : BackendJsonReturn(b)

RegSpec == RegInit /\ [][RegNext]_vars

-----------------------------------------------------------------------------
(* Local notifications: scheduleNotification and the operations built on   *)
(* it, NotificationService.ts lines 194-367                                *)

Max(a, b) == IF a > b THEN a ELSE b

\* Math.round(ms / 1000): the nearest integer, a half rounds up
RoundSeconds(ms) == (ms + 500) \div 1000

\* lines 246 and 277: Math.max(1, Math.round((fireTime - Date.now()) / 1000))
SecondsUntil(fireTime, t) == Max(1, RoundSeconds(fireTime - t))

\* { type: 'timeInterval', seconds, repeats: false }
Interval(n) == [type |-> "timeInterval", seconds |-> n, hour |-> 0, minute |-> 0,
                repeats |-> FALSE]

\* a calendar trigger that fires once
DailyOnce(h, m) == [type |-> "calendar", seconds |-> 0, hour |-> h, minute |-> m,
                    repeats |-> FALSE]

\* { type: 'calendar', hour, minute, repeats: true }
Daily(h, m) == [type |-> "calendar", seconds |-> 0, hour |-> h, minute |-> m,
                repeats |-> TRUE]

\* triggers a caller hands to scheduleNotification itself; none (undefined)
\* becomes null (line 213)
DirectTriggers == {NullTrigger, Interval(0), Interval(1), Interval(10)}

\* fire times of the callers, in ms from the call
FireOffsets == {-5000, 0, 499, 500, 1500, 900000, 901500}

\* minutesBefore of sendAppointmentNotification, 15 by default
MinutesBefore == {0, 15}

\* times of day of scheduleDailyMedication (MedicationsScreen.tsx lines 131-166)
DailyTimes == {<<8, 0>>, <<21, 30>>}

\* scheduleNotification (lines 198-214) up to the await of
\* scheduleNotificationAsync: the trigger is handed over as given
ScheduleStart(type, trigger) ==
    [op |-> "schedule", pc |-> "platform", type |-> type, trigger |-> trigger,
     id |-> 0, result |-> "none", list |-> {}]

\* an operation without arguments suspended at its platform call
PlatformCall(op, id) ==
    [op |-> op, pc |-> "platform", type |-> "none", trigger |-> NullTrigger,
     id |-> id, result |-> "none", list |-> {}]

\* the screens are up, nothing is scheduled
SchedInit ==
    /\ HistoryClosed
    /\ LoggedIn
    /\ ServiceIdle

\* a caller starts scheduler operation call
SchedCall(call) ==
    /\ sched.pc # "platform"
    /\ svcCalls < MaxCalls
    /\ svcCalls' = svcCalls + 1
    /\ sched' = call
    /\ UNCHANGED <<histVars, authVars, seeded, steps, pending, posts>>

\* scheduleNotification(data, trigger) called as such
CallSchedule(trigger) == SchedCall(ScheduleStart("chat", trigger))

\* sendChatNotification, lines 225-235
CallSendChat == SchedCall(ScheduleStart("chat", NullTrigger))

\* sendAppointmentNotification, lines 240-266
CallSendAppointment(off, mb) ==
    SchedCall(ScheduleStart("appointment",
                            Interval(SecondsUntil(now + off - mb * 60 * 1000, now))))

\* sendMedicationNotification, lines 271-297
CallSendMedication(off) ==
    SchedCall(ScheduleStart("medication", Interval(SecondsUntil(now + off, now))))

\* scheduleDailyMedication, lines 302-328
CallScheduleDaily(h, m) == SchedCall(ScheduleStart("medication", Daily(h, m)))

\* sendEmergencyNotification, lines 333-345
CallSendEmergency == SchedCall(ScheduleStart("emergency", NullTrigger))

\* cancelNotification(id), lines 351-353
CallCancel(id) == SchedCall(PlatformCall("cancel", id))

\* cancelAllNotifications, lines 358-360
CallCancelAll == SchedCall(PlatformCall("cancelAll", 0))

\* getScheduledNotifications, lines 365-367
CallGetScheduled == SchedCall(PlatformCall("get", 0))

\* what the caller gets when the platform call settles: scheduleNotification
\* catches a rejection and returns null (lines 216-219); the other three
\* operations have no catch and reject with the platform's error
SchedResult(op, ok) ==
    IF op = "schedule" THEN (IF ok THEN "id" ELSE "null")
    ELSE IF ~ok THEN "thrown"
    ELSE IF op = "get" THEN "list" ELSE "undefined"

\* the platform scheduler after a successful operation; a null trigger is
\* presented at once and never listed
PendingAfter(call, id) ==
    CASE call.op = "schedule" /\ call.trigger.type # "null" ->
             pending \cup {[id |-> id, type |-> call.type, trigger |-> call.trigger,
                           fires |-> 0]}
      [] call.op = "cancel"    -> {p \in pending : p.id # call.id}
      [] call.op = "cancelAll" -> {}
      [] OTHER                 -> pending

\* the platform call settles
SchedSettle(ok) ==
    /\ sched.pc = "platform"
    /\ sched' = [sched EXCEPT !.pc = "settled",
                              !.result = SchedResult(sched.op, ok),
                              !.id = IF sched.op = "schedule" /\ ok THEN svcCalls ELSE @,
                              !.list = IF sched.op = "get" /\ ok THEN pending ELSE @]
    /\ pending' = IF ok THEN PendingAfter(sched, svcCalls) ELSE pending
    /\ UNCHANGED <<histVars, authVars, seeded, steps, svcCalls, posts>>

\* the platform presents a scheduled notification: a one-shot entry is
\* scheduled no longer, a repeating entry stays for its next time
Fire(p) ==
    /\ p \in pending
    /\ p.fires < MaxFires
    /\ pending' = IF p.trigger.repeats
                  THEN (pending \ {p}) \cup {[p EXCEPT !.fires = @ + 1]}
                  ELSE pending \ {p}
    /\ UNCHANGED <<histVars, authVars, seeded, steps, svcCalls, sched, posts>>

SchedNext ==
    \/ \E trigger \in DirectTriggers : CallSchedule(trigger)
    \/ CallSendChat
    \/ \E off \in FireOffsets, mb \in MinutesBefore : CallSendAppointment(off, mb)
    \/ \E off \in FireOffsets : CallSendMedication(off)
    \/ \E hm \in DailyTimes : CallScheduleDaily(hm[1], hm[2])
    \/ CallSendEmergency
    \/ \E id \in 1..MaxCalls : CallCancel(id)
    \/ CallCancelAll
    \/ CallGetScheduled
    \/ \E ok \in BOOLEAN : SchedSettle(ok)
    \/ \E p \in pending : Fire(p)

SchedSpec == SchedInit /\ [][SchedNext]_vars

-----------------------------------------------------------------------------

\* the steps that need no answer of the push backend
AuthLocal ==
    \/ \E o \in RpcOutcomes : LoginRpcReturn(o)
    \/ \E k \in 0..3 : LoginPersist(k)
    \/ \E ok \in BOOLEAN : RegGetPerm(ok)
    \/ \E o \in {"granted", "denied", "throw"} : RegReqPerm(o)
    \/ \E ok \in BOOLEAN : RegChannel(ok)
    \/ \E o \in {"token", "firebaseError", "otherError"} : RegToken(o)
    \/ LoginAfterRegister
    \/ LoginAfterBackend

AuthNext ==
    \/ LoginCall
    \/ AuthLocal
    \/ \E r \in FetchOutcomes : BackendFetchReturn(r)
    \/ \E b \in Bodies : BackendJsonReturn(b)

\* The event loop resumes every settled await, the device's own services and
\* the authentication RPC answer, and a response that has begun is read to
\* its end; nothing makes the push backend answer the POST.
AuthSpec ==
    /\ AuthInit
    /\ [][AuthNext]_vars
    /\ WF_vars(AuthLocal)
    /\ WF_vars(\E b \in Bodies : BackendJsonReturn(b))

-----------------------------------------------------------------------------

Next ==
    \/ OpenHistory
    \/ Refresh
    \/ GoBack
    \/ Navigate
    \/ \E t \in 1..Len(loads) : LoadRead(t)
    \/ \E t \in 1..Len(loads) : LoadDone(t)
    \/ \E n \in Deliveries, d \in Elapse : Receive(n, d)
    \/ \E t \in 1..Len(adds), d \in ReadLatency : AddRead(t, d)
    \/ \E t \in 1..Len(adds) : AddWrite(t)
    \/ \E t \in 1..Len(adds) : AddDone(t)
    \/ \E i \in 1..Len(notifications) : Press(i)
    \/ \E t \in 1..Len(marks) : MarkWrite(t)
    \/ ClearAll
    \/ \E t \in 1..Len(clears) : ClearRemove(t)
    \/ \E t \in 1..Len(clears) : ClearDone(t)

\* every interleaving of the calls at their awaits
Spec == HistInit /\ [][Next]_vars

\* no call of the history screen is in flight
Idle == InFlight = 0

\* Sequential use: a gesture or a delivery finds every earlier call finished
SeqNext ==
    \/ Idle /\ OpenHistory
    \/ Idle /\ Refresh
    \/ Idle /\ GoBack
    \/ Navigate
    \/ \E t \in 1..Len(loads) : LoadRead(t)
    \/ \E t \in 1..Len(loads) : LoadDone(t)
    \/ Idle /\ \E n \in Deliveries, d \in Elapse : Receive(n, d)
    \/ \E t \in 1..Len(adds), d \in ReadLatency : AddRead(t, d)
    \/ \E t \in 1..Len(adds) : AddWrite(t)
    \/ \E t \in 1..Len(adds) : AddDone(t)
    \/ Idle /\ \E i \in 1..Len(notifications) : Press(i)
    \/ \E t \in 1..Len(marks) : MarkWrite(t)
    \/ Idle /\ ClearAll
    \/ \E t \in 1..Len(clears) : ClearRemove(t)
    \/ \E t \in 1..Len(clears) : ClearDone(t)

SeqSpec == HistInit /\ [][SeqNext]_vars

-----------------------------------------------------------------------------
(* The history screen in use: it is open and shows the store it loaded,    *)
(* empty or one record short of the cap.                                   *)

UseInit ==
    /\ now = BaseTime
    /\ stored \in {Absent, Item(PlainFill(HistoryCap - 1))}
    /\ notifications = SortDesc(stored.list)
    /\ mounted = TRUE
    /\ inst = 1
    /\ navPending = "none"
    /\ adds = <<>>
    /\ marks = <<>>
    /\ loads = <<>>
    /\ clears = <<>>
    /\ events = 0
    /\ delivered = [id \in DeliveryIds |-> 0]
    /\ recorded = [id \in DeliveryIds |-> 0]
    /\ pressed = {}
    /\ cleared = FALSE
    /\ AppMounted
    /\ LoggedIn
    /\ seeded = Len(stored.list)
    /\ ServiceIdle

\* the notifications delivered that are not chat messages
PlainDeliveries == {n \in Deliveries : n.data.type # "chat"}

\* sequential use, no chat message arriving
UseNext ==
    \/ Idle /\ OpenHistory
    \/ Idle /\ Refresh
    \/ Idle /\ GoBack
    \/ Navigate
    \/ \E t \in 1..Len(loads) : LoadRead(t)
    \/ \E t \in 1..Len(loads) : LoadDone(t)
    \/ Idle /\ \E n \in PlainDeliveries, d \in Elapse : Receive(n, d)
    \/ \E t \in 1..Len(adds), d \in ReadLatency : AddRead(t, d)
    \/ \E t \in 1..Len(adds) : AddWrite(t)
    \/ \E t \in 1..Len(adds) : AddDone(t)
    \/ Idle /\ \E i \in 1..Len(notifications) : Press(i)
    \/ \E t \in 1..Len(marks) : MarkWrite(t)
    \/ Idle /\ ClearAll
    \/ \E t \in 1..Len(clears) : ClearRemove(t)
    \/ \E t \in 1..Len(clears) : ClearDone(t)

UseSpec == UseInit /\ [][UseNext]_vars

-----------------------------------------------------------------------------
(* markAsRead called with any id, lines 99-109 *)

\* an id no record carries
UnknownId == 0

\* ids markAsRead is called with: those of the first and last row, and UnknownId
MarkIds ==
    {notifications[i].id : i \in PressRows \cap (1..Len(notifications))} \cup {UnknownId}

\* markAsRead(id) runs up to its await: the in-memory list is mapped and set
\* (lines 101-104) and setItem is issued with the mapped list (line 105)
MarkAsRead(id) ==
    /\ mounted
    /\ events < MaxEvents
    /\ InFlight < MaxInFlight
    /\ events' = events + 1
    /\ LET updated == MarkRead(notifications, id)
       IN  /\ notifications' = updated
           /\ marks' = Append(marks, [pc |-> "write", id |-> id, updated |-> updated])
    /\ UNCHANGED <<authVars, svcVars, appVars, now, stored, mounted, inst, navPending, adds,
                   loads, clears, delivered, recorded, pressed, cleared>>

MarkNext ==
    \/ SeqNext
    \/ Idle /\ \E id \in MarkIds : MarkAsRead(id)

\* sequential use, markAsRead called with known and unknown ids
MarkSpec == HistInit /\ [][MarkNext]_vars

(***************************************************************************)
(* The two routers: a press on a row of the history list, and a tap on the *)
(* system notification handled by the response listener App sets up.       *)
(***************************************************************************)

\* the values of data.type a payload carries
PayloadTypes == {"chat", "appointment", "medication", "emergency", "prescription",
                 "promo", Undefined}

\* the record addNotificationToHistory stored for a payload of the type
TypedRecord(id, type) ==
    NewNotif([identifier |-> id, title |-> "Notice", body |-> "b0",
              data |-> [type |-> type, conversationId |-> Undefined]],
             BaseTime - 100)

\* the switch of the response handler of App: no case for prescription
AppDestination(type) ==
    CASE type = "chat"        -> "Chat"
      [] type = "appointment" -> "Home"
      [] type = "medication"  -> "Medications"
      [] type = "emergency"   -> "Maps"
      [] OTHER                -> "none"

\* the history of the user holds one record, of any category
RouteInit ==
    /\ now = BaseTime
    /\ stored \in {Item(<<TypedRecord(1, type)>>) : type \in PayloadTypes}
    /\ notifications = <<>>
    /\ mounted = FALSE
    /\ inst = 0
    /\ navPending = "none"
    /\ adds = <<>>
    /\ marks = <<>>
    /\ loads = <<>>
    /\ clears = <<>>
    /\ events = 0
    /\ delivered = [id \in DeliveryIds |-> 0]
    /\ recorded = [id \in DeliveryIds |-> 0]
    /\ pressed = {}
    /\ cleared = FALSE
    /\ AppMounted
    /\ LoggedIn
    /\ seeded = Len(stored.list)
    /\ ServiceIdle

\* setupNotificationListeners: subscribes two listeners and keeps them in the
\* fields of the service, whatever the fields held
SetupNotificationListeners ==
    /\ svcCalls < MaxCalls
    /\ svcCalls' = svcCalls + 1
    /\ LET id == 2 * svcCalls + 3
       IN  /\ notificationListener' = id
           /\ responseListener' = id + 1
           /\ subscriptions' = subscriptions \cup {Subscription(id, "received"),
                                                   Subscription(id + 1, "response")}
    /\ UNCHANGED <<now, stored, notifications, mounted, inst, navPending, adds, marks,
                   loads, clears, events, delivered, recorded, pressed, cleared,
                   tapTimers, tapped, labels, authVars, seeded, steps, sched, pending,
                   posts>>

\* removeNotificationListeners: removes the subscriptions the fields hold; the
\* fields keep their values
RemoveNotificationListeners ==
    /\ subscriptions' = {s \in subscriptions :
                            s.id \notin {notificationListener, responseListener}}
    /\ UNCHANGED <<now, stored, notifications, mounted, inst, navPending, adds, marks,
                   loads, clears, events, delivered, recorded, pressed, cleared,
                   notificationListener, responseListener, tapTimers, tapped, labels,
                   authVars, svcVars>>

\* the user taps a system notification whose payload has the type: the response
\* listener of App runs (the navigation container is ready), and starts a timer
\* when the type is truthy
Tap(type) ==
    /\ Subscription(2, "response") \in subscriptions
    /\ events < MaxEvents
    /\ events' = events + 1
    /\ IF type # Undefined
       THEN /\ tapTimers' = Append(tapTimers, type)
            /\ UNCHANGED tapped
       ELSE /\ tapped' = [type |-> type, dest |-> "none"]
            /\ UNCHANGED tapTimers
    /\ UNCHANGED <<now, stored, notifications, mounted, inst, navPending, adds, marks,
                   loads, clears, delivered, recorded, pressed, cleared,
                   notificationListener, responseListener, subscriptions, labels,
                   authVars, svcVars>>

\* the timer of a tap runs the switch; navigating to a tab leaves the history
\* screen when it is open
TapTimer ==
    /\ tapTimers # <<>>
    /\ LET type == Head(tapTimers)
           dest == AppDestination(type)
       IN  /\ tapped' = [type |-> type, dest |-> dest]
           /\ navPending' = IF dest # "none" /\ mounted THEN dest ELSE navPending
    /\ tapTimers' = Tail(tapTimers)
    /\ UNCHANGED <<now, stored, notifications, mounted, inst, adds, marks, loads, clears,
                   events, delivered, recorded, pressed, cleared, notificationListener,
                   responseListener, subscriptions, labels, authVars, svcVars>>

RouteNext ==
    \/ Idle /\ OpenHistory
    \/ Idle /\ GoBack
    \/ Navigate
    \/ \E t \in 1..Len(loads) : LoadRead(t)
    \/ \E t \in 1..Len(loads) : LoadDone(t)
    \/ Idle /\ \E i \in 1..Len(notifications) : Press(i)
    \/ \E t \in 1..Len(marks) : MarkWrite(t)
    \/ SetupNotificationListeners
    \/ RemoveNotificationListeners
    \/ \E type \in PayloadTypes : Tap(type)
    \/ TapTimer

RouteSpec == RouteInit /\ [][RouteNext]_vars

(***************************************************************************)
(* Chat messages arriving while the history screen is open.                *)
(***************************************************************************)

\* the screen is open on an empty history
ChatInit ==
    /\ now = BaseTime
    /\ stored = Absent
    /\ notifications = <<>>
    /\ mounted = TRUE
    /\ inst = 1
    /\ navPending = "none"
    /\ adds = <<>>
    /\ marks = <<>>
    /\ loads = <<>>
    /\ clears = <<>>
    /\ events = 0
    /\ delivered = [id \in DeliveryIds |-> 0]
    /\ recorded = [id \in DeliveryIds |-> 0]
    /\ pressed = {}
    /\ cleared = FALSE
    /\ AppMounted
    /\ LoggedIn
    /\ seeded = 0
    /\ ServiceIdle

\* the chat messages delivered
ChatDeliveries == {n \in Deliveries : n.data.type = "chat"} \cup {Unthreaded}

\* chat messages arrive one after the other, rows are opened
ChatNext ==
    \/ Idle /\ \E n \in ChatDeliveries, d \in Elapse : Receive(n, d)
    \/ \E t \in 1..Len(adds), d \in ReadLatency : AddRead(t, d)
    \/ \E t \in 1..Len(adds) : AddWrite(t)
    \/ \E t \in 1..Len(adds) : AddDone(t)
    \/ Idle /\ \E i \in 1..Len(notifications) : Press(i)
    \/ \E t \in 1..Len(marks) : MarkWrite(t)
    \/ Navigate

ChatSpec == ChatInit /\ [][ChatNext]_vars

(***************************************************************************)
(* The relative-time label of a row.                                       *)
(***************************************************************************)

\* a label: 'Just now', `${n}m ago`, `${n}h ago`, `${n}d ago`, or the date of
\* the timestamp (toLocaleDateString: the day, here counted from the epoch)
Label(n, unit) == [n |-> n, unit |-> unit]

\* the comparisons of formatTimestamp with <= for <
FormatTimestampInclusive(timestamp, t) ==
    LET diff == t - timestamp
    IN  IF diff <= MinuteMs THEN Label(0, "Just now")
        ELSE IF diff <= HourMs THEN Label(diff \div MinuteMs, "m ago")
        ELSE IF diff <= DayMs THEN Label(diff \div HourMs, "h ago")
        ELSE IF diff <= WeekMs THEN Label(diff \div DayMs, "d ago")
        ELSE Label(timestamp \div DayMs, "date")

\* formatTimestamp(timestamp) when Date.now() returns t
FormatTimestamp(timestamp, t) ==
    LET diff == t - timestamp
    IN  IF diff < MinuteMs THEN Label(0, "Just now")
        ELSE IF diff < HourMs THEN Label(diff \div MinuteMs, "m ago")
        ELSE IF diff < DayMs THEN Label(diff \div HourMs, "h ago")
        ELSE IF diff < WeekMs THEN Label(diff \div DayMs, "d ago")
        ELSE Label(timestamp \div DayMs, "date")

\* ages of the records shown, in ms: up to two ticks before each bucket limit,
\* a record stamped after the clock of the screen, and one older than a week
Ages == {-1000, 0, MinuteMs - 2, MinuteMs - 1, HourMs - 2, HourMs - 1, DayMs - 2,
         DayMs - 1, WeekMs - 2, WeekMs - 1, WeekMs + DayMs}

\* the clock when the screen is looked at
RenderBase == BaseTime + WeekMs + DayMs

\* a record of the age
AgedRecord(id, age) ==
    [TypedRecord(id, "medication") EXCEPT !.timestamp = RenderBase - age]

\* the screen is open on a list of two records, newest first
RenderInit ==
    /\ now = RenderBase
    /\ \E a1, a2 \in Ages :
          /\ a1 <= a2
          /\ stored = Item(<<AgedRecord(1, a1), AgedRecord(2, a2)>>)
    /\ notifications = SortDesc(stored.list)
    /\ mounted = TRUE
    /\ inst = 1
    /\ navPending = "none"
    /\ adds = <<>>
    /\ marks = <<>>
    /\ loads = <<>>
    /\ clears = <<>>
    /\ events = 0
    /\ delivered = [id \in DeliveryIds |-> 0]
    /\ recorded = [id \in DeliveryIds |-> 0]
    /\ pressed = {}
    /\ cleared = FALSE
    /\ AppMounted
    /\ LoggedIn
    /\ seeded = Len(stored.list)
    /\ ServiceIdle

\* a millisecond passes
Tick ==
    /\ now < RenderBase + MaxTicks
    /\ now' = now + 1
    /\ UNCHANGED <<stored, notifications, mounted, inst, navPending, adds, marks,
                   loads, clears, events, delivered, recorded, pressed, cleared,
                   appVars, authVars, svcVars>>

\* the list is rendered: renderNotification formats the timestamp of each row
Render ==
    /\ mounted
    /\ labels' = [i \in 1..Len(notifications) |->
                     FormatTimestamp(notifications[i].timestamp, now)]
    /\ UNCHANGED <<now, stored, notifications, mounted, inst, navPending, adds, marks,
                   loads, clears, events, delivered, recorded, pressed, cleared,
                   notificationListener, responseListener, subscriptions, tapTimers,
                   tapped, authVars, svcVars>>

RenderNext ==
    \/ Tick
    \/ Render

RenderSpec == RenderInit /\ [][RenderNext]_vars

-----------------------------------------------------------------------------
(* Vocabulary of the properties *)

\* records of list that carry id
WithId(list, id) == {i \in 1..Len(list) : list[i].id = id}

ReadIn(list, id) == \E i \in WithId(list, id) : list[i].read

UnreadIn(list, id) == \E i \in WithId(list, id) : ~list[i].read

\* identifiers of the delivered notifications that are not chat messages
PlainIds == {n.identifier : n \in {m \in Deliveries : m.data.type # "chat"}}

\* ids that name one record: the records of earlier sessions and the
\* notifications delivered once
SingleIds == (1..HistoryCap) \cup {id \in DeliveryIds : delivered[id] <= 1}

\* sequence s without its j-th element
Without(s, j) == SubSeq(s, 1, j - 1) \o SubSeq(s, j + 1, Len(s))

\* the chat records of list a message of conversation c would be merged
\* into when the window is measured from time t
InWindow(list, c, t) ==
    {i \in 1..Len(list) : /\ list[i].type = "chat"
                          /\ list[i].data.conversationId = c
                          /\ t - list[i].timestamp < DedupWindow}

\* the add call t has read the store and decided (it is about to write)
Decided(t) == adds[t].pc = "write"

-----------------------------------------------------------------------------
(* C1: once every call has finished (nothing cleared, nothing opened),     *)
(* the persisted list holds one record for every addNotificationToHistory *)
(* call of a non-chat notification: no update is lost.                     *)
C1_NoLostUpdate ==
    (Idle /\ ~cleared /\ pressed = {}) =>
        \A id \in PlainIds : Cardinality(WithId(stored.list, id)) >= recorded[id]

(* C2: without clearAll, a record seen read in the persisted list is not   *)
(* seen unread there in the next state, and likewise for the in-memory     *)
(* list.                                                                   *)
C2_ReadIsOneWay ==
    [][ ~cleared' =>
          \A id \in SingleIds :
             /\ ReadIn(stored.list, id) => ~UnreadIn(stored'.list, id)
             /\ ReadIn(notifications, id) => ~UnreadIn(notifications', id) ]_vars

(* C3: the persisted list and the in-memory list never hold more than     *)
(* 100 records.                                                            *)
C3_AtMostCap ==
    /\ Len(stored.list) <= HistoryCap
    /\ Len(notifications) <= HistoryCap

\* a record was added to a full store and both lists are full
C3_Witness ==
    /\ Len(stored.list) = HistoryCap
    /\ Len(notifications) = HistoryCap
    /\ stored.list[1].id \in DeliveryIds
    /\ notifications[1].id \in DeliveryIds

(* C4: an add that is not merged and finds 100 records writes 100         *)
(* records: the new one, then the old ones without one of lowest          *)
(* timestamp.                                                              *)
C4_EvictsOldest ==
    \A t \in 1..Len(adds) :
        (Decided(t) /\ ~adds[t].merged /\ Len(adds[t].existing) = HistoryCap) =>
            \E j \in 1..HistoryCap :
                /\ \A i \in 1..HistoryCap :
                      adds[t].existing[j].timestamp <= adds[t].existing[i].timestamp
                /\ adds[t].updated = <<adds[t].newNotif>> \o Without(adds[t].existing, j)

\* what a merge writes: the list it read, the first matching record
\* carrying the new body and the arrival time
MergedAt(t, i) ==
    /\ Len(adds[t].updated) = Len(adds[t].existing)
    /\ adds[t].updated[i] = [adds[t].existing[i] EXCEPT
                                !.body = adds[t].newNotif.body,
                                !.timestamp = adds[t].newNotif.timestamp]

\* what an add that is not merged writes: the new record, then the old ones
Prepended(t) ==
    /\ ~adds[t].merged
    /\ Len(adds[t].updated) = Min(HistoryCap, Len(adds[t].existing) + 1)
    /\ adds[t].updated[1] = adds[t].newNotif
    /\ \A i \in 2..Len(adds[t].updated) : adds[t].updated[i] = adds[t].existing[i - 1]

\* the decision of call t, the window measured from time at
DedupDecision(t, at) ==
    LET hits == InWindow(adds[t].existing, adds[t].newNotif.data.conversationId, at)
    IN  IF hits = {}
        THEN Prepended(t)
        ELSE adds[t].merged /\ \E i \in hits : MergedAt(t, i)

(* C5 as stated: a chat notification is merged exactly when the list read *)
(* holds a chat record of the conversation received less than 60,000 ms   *)
(* before the ARRIVAL (the timestamp of the new record).                   *)
C5_WindowFromArrival ==
    [][ \A t \in 1..Len(adds) :
          (adds[t].pc = "read" /\ Len(adds') = Len(adds) /\ adds'[t].pc = "write"
             /\ adds[t].newNotif.type = "chat")
          => DedupDecision(t, adds[t].newNotif.timestamp)' ]_vars

(* C5 amended: a chat notification is merged exactly when the list read   *)
(* holds a chat record of the conversation received less than 60,000 ms   *)
(* before the CHECK, the clock read made once the storage read returned.  *)
C5_WindowFromCheck ==
    [][ \A t \in 1..Len(adds) :
          (adds[t].pc = "read" /\ Len(adds') = Len(adds) /\ adds'[t].pc = "write"
             /\ adds[t].newNotif.type = "chat")
          => DedupDecision(t, now)' ]_vars

\* a chat message found a record of its conversation exactly 60,000 ms old
\* at the check and was prepended
C5_Witness ==
    \E t \in 1..Len(adds) :
        /\ Decided(t)
        /\ adds[t].newNotif.type = "chat"
        /\ ~adds[t].merged
        /\ \E i \in 1..Len(adds[t].existing) :
              /\ adds[t].existing[i].type = "chat"
              /\ adds[t].existing[i].data.conversationId
                    = adds[t].newNotif.data.conversationId
              /\ now - adds[t].existing[i].timestamp = DedupWindow

(* C6: with a user logged in, once every call has finished (nothing       *)
(* cleared, nothing opened), every non-chat notification the platform     *)
(* delivered has a record in the persisted list.                          *)
C6_EveryDeliveryRecorded ==
    (Idle /\ ~cleared /\ pressed = {} /\ user # "none") =>
        \A id \in PlainIds : delivered[id] > 0 => WithId(stored.list, id) # {}

(* C7: without clearAll, the history view never shows a record as unread  *)
(* after it was opened from the list.                                      *)
C7_OpenedShowsRead ==
    ~cleared => \A id \in pressed \cap SingleIds : ~UnreadIn(notifications, id)

(* C8: a login that awaits the push-token POST eventually returns, also  *)
(* when the POST is never answered.                                        *)
C8_LoginReturns == (backend.pc = "fetch") ~> (login.pc = "returned")

(* C9: login returns true, with user, session token and role set, exactly *)
(* when the RPC reported success and the session was persisted, whatever  *)
(* the two registration calls returned.                                    *)
C9_LoginResultIsRpcResult ==
    login.pc = "returned" =>
        /\ login.result <=> (login.data = "success" /\ login.stored = 3)
        /\ login.result => (user = "u1" /\ sessionToken = "s1" /\ role = "user")

\* login returned true although the backend registration returned false
C9_Witness ==
    /\ login.pc = "returned"
    /\ login.result
    /\ backend.pc = "resolved"
    /\ ~backend.result

(* C10: registerPushTokenWithBackend returns true only for a 2xx response *)
(* whose body acknowledges success.                                        *)
C10_TrueOnlyOnAck ==
    (backend.pc = "resolved" /\ backend.result) =>
        /\ backend.response.kind = "response"
        /\ backend.response.status = 200
        /\ backend.body = "successTrue"

-----------------------------------------------------------------------------
(* Push registration called by the screens *)

\* the device and the build can register for push notifications
Capable == env.isDevice /\ ~env.isExpoGo

\* a platform call of the running registration was rejected
Rejected == \E i \in 1..Len(steps) : steps[i] = "rejected"

\* the running registration issued platform call c
Asked(c) == \E i \in 1..Len(steps) : steps[i] = c

(* C11: registerPushTokenWithBackend called while no token is cached      *)
(* returns false at once and issues no POST.                              *)
C11_NoTokenNoPost ==
    [][ (CallBackend /\ expoPushToken = "none") =>
           /\ backend'.pc = "resolved"
           /\ backend'.result = FALSE
           /\ posts' = posts ]_vars

\* a call without a cached token has returned false, nothing was POSTed
C11_Witness ==
    /\ svcCalls > 0
    /\ expoPushToken = "none"
    /\ backend.pc = "resolved"
    /\ backend.response.kind = "none"
    /\ ~backend.result
    /\ posts = <<>>

(* C12: registerForPushNotifications on a non-physical device or in the   *)
(* development client returns null at once: no platform call is issued,   *)
(* and permission, channels and the cached token are left as they were.   *)
C12_IncapableNoEffect ==
    [][ (CallRegister /\ ~Capable) =>
           /\ reg'.pc = "resolved"
           /\ reg'.result = "none"
           /\ steps' = <<>>
           /\ UNCHANGED <<permission, channels, expoPushToken, posts>> ]_vars

\* a registration on an emulator has returned null
C12_Witness ==
    /\ svcCalls > 0
    /\ ~env.isDevice
    /\ reg.pc = "resolved"
    /\ reg.result = "none"
    /\ steps = <<>>

(* C13: registerForPushNotifications always resolves, and with the value  *)
(* of its branch: null exactly when the capability is missing or the      *)
(* permission ends not granted; the platform token exactly when the token *)
(* request succeeded; 'local-only' exactly when a platform call was       *)
(* rejected or no project id is configured.  Permission is requested only *)
(* when it is not granted already.                                        *)
C13_ResultByBranch ==
    [][ /\ reg'.pc = "resolved" =>
            /\ reg'.result \in {"none", "tok1", "local-only"}
            /\ reg'.result = "none" <=>
                  (~Capable \/ (~Rejected' /\ permission' # "granted"))
            /\ reg'.result = "tok1" <=>
                  (Capable /\ ~Rejected' /\ Asked("getExpoPushTokenAsync")')
            /\ reg'.result = "local-only" <=>
                  (Capable /\ (Rejected' \/ (permission' = "granted" /\ ~env.projectId)))
        /\ (Asked("requestPermissionsAsync")' /\ ~Asked("requestPermissionsAsync"))
              => permission # "granted" ]_vars

\* a rejected permission request ended in 'local-only'
C13_Witness ==
    /\ reg.pc = "resolved"
    /\ reg.result = "local-only"
    /\ Asked("requestPermissionsAsync")
    /\ Rejected
    /\ permission # "granted"

(* C14: on Android, whenever registerForPushNotifications requests the    *)
(* push token, the four channels (chat, appointment, medication,          *)
(* emergency) were created before, by the same call, none rejected.       *)
C14_ChannelsBeforeToken ==
    (env.os = "android" /\ Asked("getExpoPushTokenAsync")) =>
        \A c \in 1..Len(ChannelNames) :
            /\ ChannelNames[c] \in channels
            /\ \E i \in 1..Len(steps) :
                  /\ steps[i] = ChannelNames[c]
                  /\ \A j \in 1..Len(steps) :
                        steps[j] \in {"getExpoPushTokenAsync", "rejected"} => i < j

\* the token request of an Android device is in flight
C14_Witness ==
    /\ env.os = "android"
    /\ reg.pc = "token"
    /\ channels = {ChannelNames[c] : c \in 1..Len(ChannelNames)}

-----------------------------------------------------------------------------
(* Local notifications *)

(* C15: no scheduler operation of the service rejects: when the platform  *)
(* call fails, scheduleNotification, cancelNotification,                  *)
(* cancelAllNotifications and getScheduledNotifications still complete    *)
(* with a value, and so does cancelling an id that is not scheduled.      *)
C15_NothingThrown ==
    sched.pc = "settled" => sched.result # "thrown"

(* C16: every timeInterval trigger handed to the platform scheduler has   *)
(* a delay of at least 1 second.                                          *)
C16_DelayAtLeastOne ==
    (sched.op = "schedule" /\ sched.trigger.type = "timeInterval") =>
        sched.trigger.seconds >= 1

\* the platform call of the operation has just settled with success
Succeeded(op) ==
    /\ sched.pc = "platform" /\ sched.op = op
    /\ sched'.pc = "settled" /\ sched'.result \notin {"null", "thrown"}

\* the entries of a queue with a repeating daily trigger at the time
DailyAt(queue, h, m) ==
    {p \in queue : p.trigger = [type |-> "calendar", seconds |-> 0, hour |-> h,
                                minute |-> m, repeats |-> TRUE]}

\* the ids of the entries of a queue
IdsOf(queue) == {p.id : p \in queue}

\* C22: scheduleDailyMedication(name, dosage, hour, minute) hands over a
\* repeating daily trigger at that hour and minute; when it succeeds the
\* pending queue has exactly one new entry, with that trigger; the queue
\* getScheduledNotifications returns is the pending queue; and a repeating
\* entry leaves the pending queue only by cancelNotification of its id or by
\* cancelAllNotifications, however often it fires
C22_DailyStaysPending ==
    [][/\ \A hm \in DailyTimes :
            CallScheduleDaily(hm[1], hm[2]) =>
                /\ sched'.trigger.type = "calendar" /\ sched'.trigger.repeats
                /\ sched'.trigger.hour = hm[1] /\ sched'.trigger.minute = hm[2]
       /\ (Succeeded("schedule") /\ sched.trigger.type = "calendar") =>
            /\ IdsOf(pending') = IdsOf(pending) \cup {sched'.id}
            /\ Cardinality(pending') = Cardinality(pending) + 1
            /\ \E p \in DailyAt(pending', sched.trigger.hour, sched.trigger.minute) :
                   p.id = sched'.id
       /\ Succeeded("get") => sched'.list = pending
       /\ \A p \in pending :
            (p.trigger.repeats /\ p.id \notin IdsOf(pending')) =>
                \/ Succeeded("cancel") /\ sched.id = p.id
                \/ Succeeded("cancelAll")]_vars

\* a daily reminder has fired twice and getScheduledNotifications returned it
C22_Witness ==
    /\ sched.op = "get" /\ sched.result = "list"
    /\ \E p \in sched.list : p.trigger.repeats /\ p.trigger.hour = 21
    /\ \E p \in pending : p.trigger.repeats /\ p.fires = 2

-----------------------------------------------------------------------------
(* markAsRead *)

\* a markAsRead call has just run up to its await
MarkCalled == Len(marks') = Len(marks) + 1

\* the setItem of the markAsRead call in flight has just been carried out
MarkWritten == Len(marks) = 1 /\ Len(marks') = 0

\* the in-memory list shows every record with this id as read
AllRead(id) == \A i \in WithId(notifications, id) : notifications[i].read

\* markAsRead(id) called in the state a markAsRead(id) has left changes
\* neither list
MarkTwiceIsOnce ==
    /\ (MarkCalled /\ stored = Item(notifications)
           /\ AllRead(marks'[Len(marks')].id))
        => notifications' = notifications
    /\ (MarkWritten /\ stored = Item(marks[1].updated))
        => stored' = stored

\* markAsRead(id) with an id no record carries changes neither list
MarkUnknownIsNoOp ==
    /\ (MarkCalled /\ WithId(notifications, marks'[Len(marks')].id) = {})
        => notifications' = notifications
    /\ (MarkWritten /\ WithId(marks[1].updated, marks[1].id) = {})
        => stored'.list = stored.list

(* C17: markAsRead is idempotent, and with an id that matches no record   *)
(* it leaves the in-memory and the persisted list exactly as they were:   *)
(* same records, same order, same flags.                                  *)
C17_MarkIdempotentNoOp == [][MarkTwiceIsOnce /\ MarkUnknownIsNoOp]_vars

-----------------------------------------------------------------------------
(* Loading, clearing and categories *)

\* the loadNotificationHistory call of the mounted screen has just finished
LoadFinished ==
    /\ Len(loads) = 1
    /\ Len(loads') = 0
    /\ mounted
    /\ loads[1].inst = inst

\* the clearAll call has just finished
ClearFinished == Len(clears) = 1 /\ Len(clears') = 0

\* identifiers addNotificationToHistory has been called with
RecordedIds == {id \in DeliveryIds : recorded[id] > 0}

\* the store was built by calls for non-chat notifications with distinct ids,
\* no more than the cap, and never cleared
PlainHistory ==
    /\ ~cleared
    /\ RecordedIds \subseteq PlainIds
    /\ \A id \in RecordedIds : recorded[id] = 1
    /\ seeded + Cardinality(RecordedIds) <= HistoryCap

(* C18: after N <= 100 sequential addNotificationToHistory calls for      *)
(* non-chat notifications with distinct ids (the seeded ones of earlier   *)
(* sessions included), loadNotificationHistory yields exactly these N     *)
(* records, newest first.                                                  *)
C18_LoadAfterAdds ==
    [][ (LoadFinished /\ PlainHistory) =>
           /\ Len(notifications') = seeded + Cardinality(RecordedIds)
           /\ {notifications'[i].id : i \in 1..Len(notifications')}
                 = (1..seeded) \cup RecordedIds
           /\ IsSortedDesc(notifications') ]_vars

\* the 100th record was added and the list was refreshed
C18_Witness ==
    /\ Idle /\ mounted /\ ~cleared /\ pressed = {}
    /\ events = 2
    /\ seeded = HistoryCap - 1
    /\ Cardinality(RecordedIds) = 1
    /\ RecordedIds \subseteq PlainIds
    /\ Len(notifications) = HistoryCap

Categories == {"chat", "appointment", "medication", "emergency", "prescription", "other"}

(* C20: the category of a new history record is one of the known          *)
(* categories, and it is 'other' when the payload's type tag is absent or *)
(* not one of them.                                                        *)
C20_CategoryResolved ==
    \A t \in 1..Len(adds) :
        LET r == adds[t].newNotif
        IN  /\ r.type \in Categories
            /\ r.data.type \notin Categories => r.type = "other"

\* the row pressed last in a step, with the list it was pressed in
PressedRow(i) == notifications[i]

\* the destination the routing table gives a category
Routed(category) ==
    CASE category = "chat"         -> "Chat"
      [] category = "medication"   -> "Medications"
      [] category = "prescription" -> "Medications"
      [] category = "appointment"  -> "Home"
      [] category = "emergency"    -> "Maps"
      [] OTHER                     -> "none"

\* C21: a press on a history record navigates to Chat for chat, Medications for
\* medication and prescription, Home for appointment, Maps for emergency, and
\* requests no navigation for any other category
C21_RoutingTable ==
    [][\A i \in 1..Len(notifications) :
          Press(i) =>
              IF Routed(PressedRow(i).type) = "none"
              THEN navPending' = navPending /\ mounted' = mounted
              ELSE navPending' = Routed(PressedRow(i).type)]_vars

\* a record of category emergency was pressed and the Maps tab is requested
C21_Witness == pressed # {} /\ navPending = "Maps" /\ tapped.type = "none"

\* C29: the tap handler of App and the press handler of the history list give
\* every payload type the same destination, or both none
C29_RoutersAgree ==
    tapped.type # "none" => tapped.dest = Destination(OrElse(tapped.type, "other"))

\* the listeners of a kind the platform holds subscribed
Active(kind) == {s \in subscriptions : s.kind = kind}

\* C30: when removeNotificationListeners returns no listener of the service is
\* subscribed, and at any time at most one received listener and one response
\* listener of the service is subscribed
C30_ListenersRemoved ==
    [][/\ RemoveNotificationListeners => subscriptions' = {}
       /\ Cardinality(Active("received")') <= 1
       /\ Cardinality(Active("response")') <= 1]_vars

\* the label the buckets give a record received at timestamp, delta ms ago
Bucket(delta, timestamp) ==
    CASE delta < 60000                          -> Label(0, "Just now")
      [] 60000 <= delta /\ delta < 3600000      -> Label(delta \div 60000, "m ago")
      [] 3600000 <= delta /\ delta < 86400000   -> Label(delta \div 3600000, "h ago")
      [] 86400000 <= delta /\ delta < 604800000 -> Label(delta \div 86400000, "d ago")
      [] OTHER                                  -> Label(timestamp \div 86400000, "date")

\* the labels the claim names
NamedLabel(delta, label) ==
    /\ delta = 59999 => label = Label(0, "Just now")
    /\ delta = 60000 => label = Label(1, "m ago")
    /\ delta = 3599999 => label = Label(59, "m ago")
    /\ delta = 3600000 => label = Label(1, "h ago")

\* C23: the label of a row is chosen by half-open buckets of
\* delta = now - timestamp: below 60000 'Just now', below 3600000 the whole
\* minutes, below 86400000 the whole hours, below 604800000 the whole days,
\* otherwise the date; 59999 is 'Just now', 60000 '1m ago', 3599999 '59m ago',
\* 3600000 '1h ago'
C23_HalfOpenBuckets ==
    [][Render =>
          \A i \in 1..Len(notifications) :
              LET delta == now - notifications[i].timestamp
              IN  /\ labels'[i] = Bucket(delta, notifications[i].timestamp)
                  /\ NamedLabel(delta, labels'[i])]_vars

\* rows 60000 ms and 3600000 ms old are shown as '1m ago' and '1h ago'
C23_Witness ==
    /\ Len(labels) = 2
    /\ now - notifications[1].timestamp = 60000 /\ labels[1] = Label(1, "m ago")
    /\ now - notifications[2].timestamp = 3600000 /\ labels[2] = Label(1, "h ago")

-----------------------------------------------------------------------------
(* Identity of records, clearing, merging *)

\* C24: no two records of the persisted list share an id
C24_IdsUnique ==
    \A i, j \in 1..Len(stored.list) :
        stored.list[i].id = stored.list[j].id => i = j

\* C25: once clearAll and every add have completed (no row opened), the
\* persisted list holds none of the records that were there before clearAll
C25_ClearedStaysCleared ==
    (cleared /\ Idle /\ pressed = {}) =>
        \A i \in 1..Len(stored.list) : stored.list[i].id \notin 1..seeded

\* the add call t has just decided to merge
MergeDecided(t) ==
    /\ adds[t].pc = "read" /\ Len(adds') = Len(adds)
    /\ adds'[t].pc = "write" /\ adds'[t].merged

\* C27: a chat merge writes the list it read with the body and the timestamp
\* of one record replaced: the other fields of that record, read flag
\* included, every other record, the number and the order of the records
\* are as read
C27_MergeFrame ==
    [][\A t \in 1..Len(adds) :
          MergeDecided(t) =>
              /\ Len(adds'[t].updated) = Len(adds'[t].existing)
              /\ \E i \in 1..Len(adds'[t].existing) :
                    /\ adds'[t].updated[i] =
                          [adds'[t].existing[i] EXCEPT
                              !.body = adds'[t].newNotif.body,
                              !.timestamp = adds'[t].newNotif.timestamp]
                    /\ \A j \in 1..Len(adds'[t].existing) :
                          j # i => adds'[t].updated[j] = adds'[t].existing[j]]_vars

\* C28: a chat notification whose payload has no conversationId is never
\* merged: it gets a record of its own
C28_NoIdNoMerge ==
    \A t \in 1..Len(adds) :
        (Decided(t) /\ adds[t].newNotif.type = "chat"
           /\ adds[t].newNotif.data.conversationId = Undefined)
        => ~adds[t].merged /\ Prepended(t)

\* C26: the sentinel 'local-only' is in the body of no POST to
\* /api/notifications/register
C26_SentinelNotPosted ==
    \A i \in 1..Len(posts) : posts[i] # "local-only"

====
